---- MODULE Spec2Model ----
(***************************************************************************)
(* serde-json-v8: the float-to-token decision rule of CompactV8Formatter   *)
(* and PrettyV8Formatter (src/src/ser.rs), the structural forwarding of    *)
(* PrettyV8Formatter, and the six entry points.                            *)
(*                                                                         *)
(* Numbers keep their width.  TLC integers are 32 bits wide, so a 64-bit   *)
(* integer is a vector of 64 bits, a float is a sign, a mantissa vector    *)
(* (53 bits for f64, 24 for f32) and the exponent of its last bit, and a   *)
(* decimal token is computed digit by digit.                               *)
(***************************************************************************)
EXTENDS Integers, Sequences, FiniteSets, TLC

(***************************************************************************)
(* Bit vectors, most significant bit first.                                *)
(***************************************************************************)
Zeros(n) == [i \in 1..n |-> 0]

Ones(n) == [i \in 1..n |-> 1]

IsZeroBits(b) == \A i \in 1..Len(b) : b[i] = 0

Front(s) == SubSeq(s, 1, Len(s) - 1)

Last(s) == s[Len(s)]

\* b without its leading zeros.
StripZ(b) ==
    IF IsZeroBits(b) THEN <<>>
    ELSE SubSeq(b, CHOOSE i \in 1..Len(b) : b[i] = 1 /\ \A j \in 1..(i - 1) : b[j] = 0,
                Len(b))

\* b + 1 on Len(b) bits (wraps to zero from all ones).
RECURSIVE IncBits(_)
IncBits(b) ==
    IF b = <<>> THEN <<>>
    ELSE IF Last(b) = 0 THEN Front(b) \o <<1>>
    ELSE IncBits(Front(b)) \o <<0>>

\* The bits of a small natural number, without leading zeros.
RECURSIVE BitsOfNat(_)
BitsOfNat(n) == IF n = 0 THEN <<>> ELSE BitsOfNat(n \div 2) \o <<n % 2>>

\* b padded on the left to n bits.
PadTo(b, n) == Zeros(n - Len(b)) \o b

(***************************************************************************)
(* Decimal numbers of any size: digits, least significant first, no        *)
(* leading zero digit; zero is the empty sequence.                         *)
(***************************************************************************)
RECURSIVE DecMulAdd(_, _, _)
DecMulAdd(d, k, c) ==
    IF d = <<>>
    THEN IF c = 0 THEN <<>>
         ELSE <<c % 10>> \o DecMulAdd(<<>>, k, c \div 10)
    ELSE LET t == k * Head(d) + c
         IN  <<t % 10>> \o DecMulAdd(Tail(d), k, t \div 10)

\* k^n for small results.
RECURSIVE Pow(_, _)
Pow(k, n) ==
    IF n = 0 THEN 1
    ELSE IF n % 2 = 1 THEN k * Pow(k, n - 1)
    ELSE Pow(k * k, n \div 2)

\* Long multiplication runs on limbs of four digits, least significant
\* first, so that a factor up to 2^17 times a limb plus a carry fits a
\* 32-bit integer.
LimbsOf(d) ==
    [j \in 1..((Len(d) + 3) \div 4) |->
        LET at(i) == IF i <= Len(d) THEN d[i] ELSE 0
        IN  at(4 * j - 3) + 10 * at(4 * j - 2) + 100 * at(4 * j - 1) + 1000 * at(4 * j)]

RECURSIVE LimbMulAdd(_, _, _)
LimbMulAdd(l, k, c) ==
    IF l = <<>>
    THEN IF c = 0 THEN <<>>
         ELSE <<c % 10000>> \o LimbMulAdd(<<>>, k, c \div 10000)
    ELSE IF Len(l) >= 4
    THEN LET t1 == k * l[1] + c
             t2 == k * l[2] + t1 \div 10000
             t3 == k * l[3] + t2 \div 10000
             t4 == k * l[4] + t3 \div 10000
         IN  <<t1 % 10000, t2 % 10000, t3 % 10000, t4 % 10000>>
             \o LimbMulAdd(SubSeq(l, 5, Len(l)), k, t4 \div 10000)
    ELSE LET t == k * Head(l) + c
         IN  <<t % 10000>> \o LimbMulAdd(Tail(l), k, t \div 10000)

\* l * k^n for k = 2 or 5, seven factors at a time.
RECURSIVE LimbMulPow(_, _, _)
LimbMulPow(l, k, n) ==
    IF n = 0 THEN l
    ELSE LET c == IF n >= 7 THEN 7 ELSE n
         IN  LimbMulPow(LimbMulAdd(l, Pow(k, c), 0), k, n - c)

DecShift(d, n) == IF d = <<>> THEN d ELSE Zeros(n) \o d

RECURSIVE DecStrip(_)
DecStrip(d) == IF d = <<>> \/ Last(d) # 0 THEN d ELSE DecStrip(Front(d))

DigitsOf(l) ==
    DecStrip([i \in 1..(4 * Len(l)) |->
                 (l[((i - 1) \div 4) + 1] \div Pow(10, (i - 1) % 4)) % 10])

\* d * k^n for k = 2 or 5.
DecMulPow(d, k, n) == DigitsOf(LimbMulPow(LimbsOf(d), k, n))

\* d - 1, for d > 0.
RECURSIVE DecPredRaw(_)
DecPredRaw(d) ==
    IF Head(d) > 0 THEN <<Head(d) - 1>> \o Tail(d)
    ELSE <<9>> \o DecPredRaw(Tail(d))

DecPred(d) == DecStrip(DecPredRaw(d))

\* The value of at most 16 bits: bit i counted from the last one.
NatOfBits(b) ==
    LET at(i) == IF i < Len(b) THEN b[Len(b) - i] ELSE 0
    IN  (((at(0) + 2 * at(1)) + (4 * at(2) + 8 * at(3)))
         + ((16 * at(4) + 32 * at(5)) + (64 * at(6) + 128 * at(7))))
        + (((256 * at(8) + 512 * at(9)) + (1024 * at(10) + 2048 * at(11)))
           + ((4096 * at(12) + 8192 * at(13)) + (16384 * at(14) + 32768 * at(15))))

\* Sixteen bits at a time.
RECURSIVE LimbsOfBitsAcc(_, _)
LimbsOfBitsAcc(b, acc) ==
    IF b = <<>> THEN acc
    ELSE LET c == IF Len(b) >= 16 THEN 16 ELSE Len(b)
         IN  LimbsOfBitsAcc(SubSeq(b, c + 1, Len(b)),
                            LimbMulAdd(acc, Pow(2, c), NatOfBits(SubSeq(b, 1, c))))

LimbsOfBits(b) == LimbsOfBitsAcc(b, <<>>)

DecOfBits(b) == DigitsOf(LimbsOfBits(b))

\* l - n for a small n <= l.
RECURSIVE LimbSub(_, _)
LimbSub(l, n) ==
    IF n = 0 THEN l
    ELSE IF Head(l) >= n THEN <<Head(l) - n>> \o Tail(l)
    ELSE <<Head(l) + 10000 - n>> \o LimbSub(Tail(l), 1)

\* -1, 0, 1 as a < b, a = b, a > b, for as many digits in both: the first
\* digit from the top that differs decides.
DecCmpSame(a, b) ==
    IF a = b THEN 0
    ELSE LET n == Len(a)
             t == CHOOSE t \in 1..n :
                      /\ a[n + 1 - t] # b[n + 1 - t]
                      /\ \A u \in 1..(t - 1) : a[n + 1 - u] = b[n + 1 - u]
         IN  IF a[n + 1 - t] < b[n + 1 - t] THEN -1 ELSE 1

DecCmp(a, b) ==
    IF Len(a) < Len(b) THEN -1
    ELSE IF Len(a) > Len(b) THEN 1
    ELSE DecCmpSame(a, b)

DecLe(a, b) == DecCmp(a, b) <= 0

\* d with its k lowest digits cleared: the multiple of 10^k at or below d.
DecFloor(d, k) ==
    IF Len(d) <= k THEN <<>> ELSE Zeros(k) \o SubSeq(d, k + 1, Len(d))

\* d + 1.
RECURSIVE DecInc(_)
DecInc(d) ==
    IF d = <<>> THEN <<1>>
    ELSE IF Head(d) < 9 THEN <<Head(d) + 1>> \o Tail(d)
    ELSE <<0>> \o DecInc(Tail(d))

\* d + 10^k.
DecAddPow(d, k) ==
    IF Len(d) <= k THEN d \o Zeros(k - Len(d)) \o <<1>>
    ELSE SubSeq(d, 1, k) \o DecInc(SubSeq(d, k + 1, Len(d)))

Reverse(s) == [i \in 1..Len(s) |-> s[Len(s) + 1 - i]]

\* Limbs without zero limbs at the top.
LimbStrip(l) ==
    IF \A i \in 1..Len(l) : l[i] = 0 THEN <<>>
    ELSE SubSeq(l, 1, CHOOSE i \in 1..Len(l) :
                          l[i] # 0 /\ \A j \in (i + 1)..Len(l) : l[j] = 0)

\* Long division of limbs, most significant first, by k <= 2^16 with the
\* remainder r so far: the quotient, and the remainder.
RECURSIVE LimbDivMsb(_, _, _)
LimbDivMsb(m, k, r) ==
    IF m = <<>> THEN <<>>
    ELSE <<(10000 * r + Head(m)) \div k>>
         \o LimbDivMsb(Tail(m), k, (10000 * r + Head(m)) % k)

RECURSIVE LimbModMsb(_, _, _)
LimbModMsb(m, k, r) ==
    IF m = <<>> THEN r ELSE LimbModMsb(Tail(m), k, (10000 * r + Head(m)) % k)

LimbDiv(l, k) == LimbStrip(Reverse(LimbDivMsb(Reverse(l), k, 0)))

LimbMod(l, k) == LimbModMsb(Reverse(l), k, 0)

\* The 16 bits of n < 2^16.
Bits16(n) == [i \in 1..16 |-> (n \div Pow(2, 16 - i)) % 2]

\* The bits of a number, sixteen at a time.
RECURSIVE BitsOfLimbs(_)
BitsOfLimbs(l) ==
    IF l = <<>> THEN <<>>
    ELSE BitsOfLimbs(LimbDiv(l, 65536)) \o Bits16(LimbMod(l, 65536))

\* The bits of a decimal number, without leading zeros.
BitsOfDec(d) == StripZ(BitsOfLimbs(LimbStrip(LimbsOf(d))))

DigitChar(n) == <<"0", "1", "2", "3", "4", "5", "6", "7", "8", "9">>[n + 1]

\* The characters of a decimal number, most significant digit first.
DecChars(d) ==
    IF d = <<>> THEN <<"0">>
    ELSE [i \in 1..Len(d) |-> DigitChar(d[Len(d) + 1 - i])]

(***************************************************************************)
(* IEEE-754 binary floats.  A finite float is (-1)^s * m * 2^e with m a    *)
(* vector of p bits: its first bit is 1 (normal), or e = emin (subnormal   *)
(* and zero).  `flt` is F64 or F32.                                        *)
(***************************************************************************)
F64 == [p |-> 53, emin |-> -1074, emax |-> 971]

F32 == [p |-> 24, emin |-> -149, emax |-> 104]

NaN == [k |-> "nan", s |-> 0, m |-> <<>>, e |-> 0]

Inf(s) == [k |-> "inf", s |-> s, m |-> <<>>, e |-> 0]

Zero(s, flt) == [k |-> "fin", s |-> s, m |-> Zeros(flt.p), e |-> flt.emin]

IsZero(x) == x.k = "fin" /\ IsZeroBits(x.m)

\* The float of format flt equal to (-1)^s * bits * 2^e, for at most p
\* significant bits (an exact conversion).
Normalize(s, bits, e, flt) ==
    LET b  == StripZ(bits)
        L  == Len(b)
        e1 == e - (flt.p - L)
        sh == IF e1 < flt.emin THEN flt.emin - e1 ELSE 0
    IN  IF b = <<>> THEN Zero(s, flt)
        ELSE [k |-> "fin", s |-> s,
              m |-> Zeros(sh) \o b \o Zeros(flt.p - L - sh),
              e |-> e1 + sh]

\* f64::round / f32::round: to the nearest integer, halves away from zero.
round(x, flt) ==
    IF x.k # "fin" \/ x.e >= 0 \/ IsZero(x) THEN x
    ELSE LET sh == 0 - x.e
         IN  IF sh > flt.p THEN Zero(x.s, flt)
             ELSE LET ip   == SubSeq(x.m, 1, flt.p - sh)
                      half == x.m[flt.p - sh + 1]
                      n    == IF half = 1 THEN IncBits(<<0>> \o ip) ELSE ip
                  IN  Normalize(x.s, n, 0, flt)

(***************************************************************************)
(* i64: a sign and a 64-bit magnitude, -2^63 .. 2^63 - 1.                  *)
(***************************************************************************)
I64Bits == 64

I64Max == [neg |-> FALSE, mag |-> <<0>> \o Ones(I64Bits - 1)]

I64Min == [neg |-> TRUE, mag |-> <<1>> \o Zeros(I64Bits - 1)]

I64Zero == [neg |-> FALSE, mag |-> Zeros(I64Bits)]

\* The integer part of a finite float, as bits without leading zeros.
TruncBits(x, flt) ==
    StripZ(IF x.e >= 0 THEN x.m \o Zeros(x.e)
           ELSE IF 0 - x.e >= flt.p THEN <<>>
           ELSE SubSeq(x.m, 1, flt.p + x.e))

\* Whether the integer part of x is an i64.
FitsI64(x, flt) ==
    /\ x.k = "fin"
    /\ LET b == TruncBits(x, flt)
       IN  Len(b) < I64Bits \/ (x.s = 1 /\ b = I64Min.mag)

\* `x as i64`.  The cast saturates and sends NaN to 0 (cast = "saturating",
\* the language rule since Rust 1.45).  Before that an out-of-range cast was
\* undefined behaviour, which x86-64 builds compiled to cvttsd2si: the
\* "integer indefinite" value i64::MIN for every such input
\* (cast = "indefinite").
as_i64(x, flt, cast) ==
    IF FitsI64(x, flt)
    THEN LET b == TruncBits(x, flt)
         IN  [neg |-> x.s = 1 /\ b # <<>>, mag |-> PadTo(b, I64Bits)]
    ELSE IF cast = "indefinite" THEN I64Min
    ELSE IF x.k = "nan" THEN I64Zero
    ELSE IF x.s = 1 THEN I64Min
    ELSE I64Max

\* `n as f64` / `n as f32`: the nearest float, ties to even.
as_float(n, flt) ==
    LET b == StripZ(n.mag)
        L == Len(b)
        s == IF n.neg THEN 1 ELSE 0
    IN  IF L <= flt.p THEN Normalize(s, b, 0, flt)
        ELSE LET q  == SubSeq(b, 1, flt.p)
                 r  == SubSeq(b, flt.p + 1, L)
                 up == r[1] = 1 /\ (~IsZeroBits(Tail(r)) \/ q[flt.p] = 1)
             IN  IF ~up THEN [k |-> "fin", s |-> s, m |-> q, e |-> L - flt.p]
                 ELSE IF q = Ones(flt.p)
                 THEN [k |-> "fin", s |-> s, m |-> <<1>> \o Zeros(flt.p - 1),
                       e |-> L - flt.p + 1]
                 ELSE [k |-> "fin", s |-> s, m |-> IncBits(q), e |-> L - flt.p]

\* `a == b` on floats: NaN equals nothing, the two zeros are equal.
float_eq(a, b) ==
    /\ a.k # "nan"
    /\ b.k # "nan"
    /\ \/ IsZero(a) /\ IsZero(b)
       \/ a = b

\* `value.into()`: f32 to f64, exact.
into_f64(x) ==
    IF x.k = "fin" THEN Normalize(x.s, x.m, x.e, F64) ELSE x

(***************************************************************************)
(* The base formatter's number rendering (serde_json::ser::Formatter,      *)
(* called from ser.rs): write_i64 prints the decimal digits (itoa),        *)
(* write_f64 prints the shortest decimal that reads back as the same       *)
(* double, the nearest to it among the shortest (ryu), laid out as the     *)
(* ryu crate lays it out.                                                  *)
(***************************************************************************)
itoa(n) == (IF n.neg THEN <<"-">> ELSE <<>>) \o DecChars(DecOfBits(n.mag))

Max(a, b) == IF a >= b THEN a ELSE b

Min(a, b) == IF a <= b THEN a ELSE b

\* The decimals that read back as the finite nonzero double x, in units of
\* 10^q: every integer from lo to hi; v is x itself.  The neighbours of x
\* are 2^e away (the lower one 2^(e-1) when x is a power of two); the
\* halfway points belong to x when its mantissa is even.
RoundingInterval(x) ==
    LET pow2   == x.m = <<1>> \o Zeros(F64.p - 1) /\ x.e > F64.emin
        even   == Last(x.m) = 0
        m      == LimbsOfBits(x.m)
        v4     == LimbMulAdd(m, 4, 0)
        hi4    == LimbMulAdd(m, 4, 2)
        lo4    == LimbSub(v4, IF pow2 THEN 1 ELSE 2)
        e2     == x.e - 2
        sc(l)  == DigitsOf(IF e2 >= 0 THEN LimbMulPow(l, 2, e2)
                           ELSE LimbMulPow(l, 5, 0 - e2))
    IN  [v  |-> sc(v4),
         lo |-> IF even THEN sc(lo4) ELSE DecInc(sc(lo4)),
         hi |-> IF even THEN sc(hi4) ELSE DecPred(sc(hi4)),
         q  |-> Min(e2, 0)]

\* The most low digits that can be dropped: the largest k with a multiple
\* of 10^k in the interval.
DropDigits(I) ==
    CHOOSE k \in 0..Len(I.hi) :
        /\ DecLe(I.lo, DecFloor(I.hi, k))
        /\ ~DecLe(I.lo, DecFloor(I.hi, k + 1))

\* The multiple of 10^k in the interval nearest to v: the one below v or
\* the one above, halves to the even digit.
NearestMultiple(I, k) ==
    LET down  == DecFloor(I.v, k)
        up    == DecAddPow(down, k)
        t     == IF k >= 1 /\ Len(I.v) >= k THEN I.v[k] ELSE 0
        rest  == SubSeq(I.v, 1, Min(k - 1, Len(I.v)))
        odd   == Len(I.v) > k /\ I.v[k + 1] % 2 = 1
        more  == t > 5 \/ (t = 5 /\ (~IsZeroBits(rest) \/ odd))
    IN  IF more /\ DecLe(up, I.hi) THEN up
        ELSE IF DecLe(I.lo, down) THEN down
        ELSE up

\* d without its k lowest digits.
DropLow(d, k) == SubSeq(d, k + 1, Len(d))

ShortestIn(I, k) ==
    [mantissa |-> DropLow(NearestMultiple(I, k), k), exponent |-> I.q + k]

Shortest(I) == ShortestIn(I, DropDigits(I))

\* ryu's d2d: the digits (least significant first) and the decimal exponent.
d2d(x) == Shortest(RoundingInterval(x))

\* The characters of a small integer.
IntChars(n) ==
    IF n < 0 THEN <<"-">> \o DecChars(DecMulAdd(<<>>, 1, 0 - n))
    ELSE DecChars(DecMulAdd(<<>>, 1, n))

\* The layout of ryu::Buffer::format for the digits ds and the decimal
\* exponent k; kk is where the decimal point falls.
LayoutAt(ds, length, k, kk) ==
    IF 0 <= k /\ kk <= 16
    THEN ds \o [i \in 1..k |-> "0"] \o <<".", "0">>
    ELSE IF 0 < kk /\ kk <= 16
    THEN SubSeq(ds, 1, kk) \o <<".">> \o SubSeq(ds, kk + 1, length)
    ELSE IF -5 < kk /\ kk <= 0
    THEN <<"0", ".">> \o [i \in 1..(0 - kk) |-> "0"] \o ds
    ELSE IF length = 1
    THEN ds \o <<"e">> \o IntChars(kk - 1)
    ELSE <<ds[1], ".">> \o Tail(ds) \o <<"e">> \o IntChars(kk - 1)

Layout(ds, k) == LayoutAt(ds, Len(ds), k, Len(ds) + k)

LayoutOf(v) == Layout(DecChars(v.mantissa), v.exponent)

\* ryu::Buffer::format.
format64(x) ==
    IF x.k = "nan" THEN <<"N", "a", "N">>
    ELSE (IF x.s = 1 THEN <<"-">> ELSE <<>>) \o
         (IF x.k = "inf" THEN <<"i", "n", "f">>
          ELSE IF IsZero(x) THEN <<"0", ".", "0">>
          ELSE LayoutOf(d2d(x)))

(***************************************************************************)
(* Reading a JSON number token.                                            *)
(***************************************************************************)
Digits == {"0", "1", "2", "3", "4", "5", "6", "7", "8", "9"}

DigitVal(c) == CHOOSE n \in 0..9 : DigitChar(n) = c

IndexOf(s, c) ==
    IF \E i \in 1..Len(s) : s[i] = c
    THEN CHOOSE i \in 1..Len(s) : s[i] = c /\ \A j \in 1..(i - 1) : s[j] # c
    ELSE 0

IsDigits(s) == s # <<>> /\ \A i \in 1..Len(s) : s[i] \in Digits

\* A small natural number from its characters.
RECURSIVE NatOfChars(_)
NatOfChars(s) == IF s = <<>> THEN 0 ELSE 10 * NatOfChars(Front(s)) + DigitVal(Last(s))

\* A decimal number from its digit characters.
DecOfChars(s) == DecStrip([i \in 1..Len(s) |-> DigitVal(s[Len(s) + 1 - i])])

\* The parts of a number token: sign, integer digits, fraction digits,
\* exponent; ok is whether the token is a JSON number.
NumberParts(tok) ==
    LET neg  == tok # <<>> /\ tok[1] = "-"
        body == IF neg THEN Tail(tok) ELSE tok
        ei   == IndexOf(body, "e")
        man  == IF ei = 0 THEN body ELSE SubSeq(body, 1, ei - 1)
        ex   == IF ei = 0 THEN <<>> ELSE SubSeq(body, ei + 1, Len(body))
        exn  == ex # <<>> /\ ex[1] = "-"
        exd  == IF exn THEN Tail(ex) ELSE ex
        di   == IndexOf(man, ".")
        int  == IF di = 0 THEN man ELSE SubSeq(man, 1, di - 1)
        frac == IF di = 0 THEN <<>> ELSE SubSeq(man, di + 1, Len(man))
    IN  [ok   |-> /\ IsDigits(int)
                  /\ (Len(int) = 1 \/ int[1] # "0")
                  /\ (di = 0 \/ IsDigits(frac))
                  /\ (ei = 0 \/ IsDigits(exd)),
         neg  |-> neg,
         int  |-> int,
         frac |-> frac,
         isInt |-> di = 0 /\ ei = 0,
         exp  |-> IF ei = 0 \/ ~IsDigits(exd) THEN 0
                  ELSE IF exn THEN 0 - NatOfChars(exd) ELSE NatOfChars(exd)]

\* Whether a correctly rounding reader maps the number token tok to the
\* double x: the token's value lies between the halfway points around x.
\* Both sides are scaled to integers: the token is D * 10^t, the halfway
\* points are (4m - 1 or 2) * 2^(e-2) and (4m + 2) * 2^(e-2).
ReadsBackAs(tok, x) ==
    LET P == NumberParts(tok)
    IN  /\ P.ok
        /\ x.k = "fin"
        /\ P.neg = (x.s = 1)
        /\ LET D == DecOfChars(P.int \o P.frac)
           IN  IF IsZero(x) THEN D = <<>>
               ELSE LET t    == P.exp - Len(P.frac)
                        e2   == x.e - 2
                        a    == Max(0 - t, 0)
                        b    == Max(0 - e2, 0)
                        T    == DecMulPow(DecShift(D, t + a), 2, b)
                        pow2 == x.m = <<1>> \o Zeros(F64.p - 1) /\ x.e > F64.emin
                        m4   == LimbMulAdd(LimbsOfBits(x.m), 4, 0)
                        side(l) == DecShift(DigitsOf(LimbMulPow(l, 2, e2 + b)), a)
                        lo   == side(LimbSub(m4, IF pow2 THEN 1 ELSE 2))
                        hi   == side(LimbMulAdd(LimbsOfBits(x.m), 4, 2))
                    IN  IF Last(x.m) = 0
                        THEN DecCmp(lo, T) <= 0 /\ DecCmp(T, hi) <= 0
                        ELSE DecCmp(lo, T) < 0 /\ DecCmp(T, hi) < 0

(***************************************************************************)
(* The byte sink (W: io::Write).  buf is what reached it; room is how many *)
(* more bytes it takes before failing with err, -1 for a sink that never   *)
(* fails (the Vec<u8> of to_vec).                                          *)
(***************************************************************************)
NewVec == [buf |-> <<>>, room |-> -1, err |-> "none"]

Sink(room, err) == [buf |-> <<>>, room |-> room, err |-> err]

\* io::Write::write_all: every byte, or the sink's error.
write_all(w, bytes) ==
    IF w.room < 0 THEN [w |-> [w EXCEPT !.buf = @ \o bytes], res |-> "Ok"]
    ELSE IF Len(bytes) <= w.room
    THEN [w |-> [w EXCEPT !.buf = @ \o bytes, !.room = @ - Len(bytes)],
          res |-> "Ok"]
    ELSE [w |-> [w EXCEPT !.buf = @ \o SubSeq(bytes, 1, w.room), !.room = 0],
          res |-> w.err]

(***************************************************************************)
(* The number callbacks of the base formatters: the trait's defaults,      *)
(* which CompactFormatter and PrettyFormatter both keep.                   *)
(***************************************************************************)
Formatter_write_i64(w, n) == write_all(w, itoa(n))

Formatter_write_f64(w, value) == write_all(w, format64(value))

(***************************************************************************)
(* The float-to-token decision rule, ser.rs lines 56-57, 69-70, 113-114    *)
(* and 126-127.                                                            *)
(***************************************************************************)
\* let nearest_int = value.round() as i64;
NearestInt(value, flt, cast) == as_i64(round(value, flt), flt, cast)

\* value == (nearest_int as f64)
is_nearest_int_f64_round(value, n) == float_eq(value, round(value, F64))

is_nearest_int_f64_bits(value, n) == value = as_float(n, F64)

is_nearest_int_f64(value, n) == float_eq(value, as_float(n, F64))

\* value == (nearest_int as f32)
is_nearest_int_f32_never(value, n) == FALSE

is_nearest_int_f32(value, n) == float_eq(value, as_float(n, F32))

\* What one number callback did: the sink after it, its result, and the
\* callback of the base formatter it called, with the argument it passed.
Wrote(r, call, arg) == [w |-> r.w, res |-> r.res, call |-> call, arg |-> arg]

\* Lines 57-61: the test and the two delegations, nearest_int being the
\* integer of line 56.
CompactV8Formatter_write_f32_of(writer, value, nearest_int) ==
    IF is_nearest_int_f32(value, nearest_int)
    THEN Wrote(Formatter_write_i64(writer, nearest_int), "write_i64", nearest_int)
    ELSE Wrote(Formatter_write_f64(writer, into_f64(value)), "write_f64", into_f64(value))

\* CompactV8Formatter::write_f32 (lines 51-62).
CompactV8Formatter_write_f32(writer, value, cast) ==
    CompactV8Formatter_write_f32_of(writer, value, NearestInt(value, F32, cast))

\* Lines 70-74, were the float path to write the rounded value.
CompactV8Formatter_write_f64_rounded(writer, value, nearest_int) ==
    IF is_nearest_int_f64(value, nearest_int)
    THEN Wrote(Formatter_write_i64(writer, nearest_int), "write_i64", nearest_int)
    ELSE Wrote(Formatter_write_f64(writer, round(value, F64)), "write_f64", value)

\* Lines 70-74.
CompactV8Formatter_write_f64_of(writer, value, nearest_int) ==
    IF is_nearest_int_f64(value, nearest_int)
    THEN Wrote(Formatter_write_i64(writer, nearest_int), "write_i64", nearest_int)
    ELSE Wrote(Formatter_write_f64(writer, value), "write_f64", value)

\* CompactV8Formatter::write_f64 (lines 64-75).
CompactV8Formatter_write_f64(writer, value, cast) ==
    CompactV8Formatter_write_f64_of(writer, value, NearestInt(value, F64, cast))

(***************************************************************************)
(* serde_json::ser::PrettyFormatter, the formatter PrettyV8Formatter owns  *)
(* (line 82): its state and the structural callbacks it overrides.  A      *)
(* callback changes the state first and writes afterwards.                 *)
(***************************************************************************)
\* PrettyFormatter::with_indent(indent).
PrettyFormatter_with_indent(indent) ==
    [current_indent |-> 0, has_value |-> FALSE, indent |-> indent]

\* PrettyFormatter::new(): two spaces.
PrettyFormatter_new == PrettyFormatter_with_indent(<<" ", " ">>)

\* indent(wr, n, s): s written n times.
IndentBytes(n, s) == [i \in 1..(n * Len(s)) |-> s[((i - 1) % Len(s)) + 1]]

Did(f, r) == [f |-> f, w |-> r.w, res |-> r.res]

PrettyFormatter_begin_array(self, w) ==
    Did([self EXCEPT !.current_indent = @ + 1, !.has_value = FALSE],
        write_all(w, <<"[">>))

PrettyFormatter_end_array(self, w) ==
    LET f == [self EXCEPT !.current_indent = @ - 1]
    IN  Did(f, write_all(w, (IF self.has_value
                             THEN <<"\n">> \o IndentBytes(f.current_indent, f.indent)
                             ELSE <<>>) \o <<"]">>))

PrettyFormatter_begin_array_value(self, w, first) ==
    Did(self, write_all(w, (IF first THEN <<"\n">> ELSE <<",", "\n">>)
                           \o IndentBytes(self.current_indent, self.indent)))

PrettyFormatter_end_array_value(self, w) ==
    [f |-> [self EXCEPT !.has_value = TRUE], w |-> w, res |-> "Ok"]

PrettyFormatter_begin_object(self, w) ==
    Did([self EXCEPT !.current_indent = @ + 1, !.has_value = FALSE],
        write_all(w, <<"{">>))

PrettyFormatter_end_object(self, w) ==
    LET f == [self EXCEPT !.current_indent = @ - 1]
    IN  Did(f, write_all(w, (IF self.has_value
                             THEN <<"\n">> \o IndentBytes(f.current_indent, f.indent)
                             ELSE <<>>) \o <<"}">>))

PrettyFormatter_begin_object_key(self, w, first) ==
    Did(self, write_all(w, (IF first THEN <<"\n">> ELSE <<",", "\n">>)
                           \o IndentBytes(self.current_indent, self.indent)))

PrettyFormatter_begin_object_value(self, w) ==
    Did(self, write_all(w, <<":", " ">>))

PrettyFormatter_end_object_value(self, w) ==
    [f |-> [self EXCEPT !.has_value = TRUE], w |-> w, res |-> "Ok"]

(***************************************************************************)
(* The callbacks neither V8 formatter overrides: the Formatter trait's     *)
(* defaults.  A callback is [op, arg]: arg is `first` for the two begin    *)
(* callbacks that take it, the value for a number, the text for a string   *)
(* fragment.                                                               *)
(***************************************************************************)
CB(op, arg) == [op |-> op, arg |-> arg]

Formatter_default(w, cb) ==
    CASE cb.op = "write_null"            -> write_all(w, <<"n", "u", "l", "l">>)
      [] cb.op = "write_i64"             -> Formatter_write_i64(w, cb.arg)
      [] cb.op = "write_u64"             -> Formatter_write_i64(w, cb.arg)
      [] cb.op = "write_f64"             -> Formatter_write_f64(w, cb.arg)
      [] cb.op = "begin_string"          -> write_all(w, <<"\"">>)
      [] cb.op = "end_string"            -> write_all(w, <<"\"">>)
      [] cb.op = "write_string_fragment" -> write_all(w, cb.arg)
      [] cb.op = "begin_array"           -> write_all(w, <<"[">>)
      [] cb.op = "end_array"             -> write_all(w, <<"]">>)
      [] cb.op = "begin_array_value"     ->
            write_all(w, IF cb.arg THEN <<>> ELSE <<",">>)
      [] cb.op = "end_array_value"       -> [w |-> w, res |-> "Ok"]
      [] cb.op = "begin_object"          -> write_all(w, <<"{">>)
      [] cb.op = "end_object"            -> write_all(w, <<"}">>)
      [] cb.op = "begin_object_key"      ->
            write_all(w, IF cb.arg THEN <<>> ELSE <<",">>)
      [] cb.op = "end_object_key"        -> [w |-> w, res |-> "Ok"]
      [] cb.op = "begin_object_value"    -> write_all(w, <<":">>)
      [] cb.op = "end_object_value"      -> [w |-> w, res |-> "Ok"]

\* Every callback of the base PrettyFormatter: its own structural ones, the
\* trait's default for the rest.
PrettyFormatter_callback(self, w, cb) ==
    CASE cb.op = "begin_array"        -> PrettyFormatter_begin_array(self, w)
      [] cb.op = "end_array"          -> PrettyFormatter_end_array(self, w)
      [] cb.op = "begin_array_value"  -> PrettyFormatter_begin_array_value(self, w, cb.arg)
      [] cb.op = "end_array_value"    -> PrettyFormatter_end_array_value(self, w)
      [] cb.op = "begin_object"       -> PrettyFormatter_begin_object(self, w)
      [] cb.op = "end_object"         -> PrettyFormatter_end_object(self, w)
      [] cb.op = "begin_object_key"   -> PrettyFormatter_begin_object_key(self, w, cb.arg)
      [] cb.op = "begin_object_value" -> PrettyFormatter_begin_object_value(self, w)
      [] cb.op = "end_object_value"   -> PrettyFormatter_end_object_value(self, w)
      [] OTHER                        -> Did(self, Formatter_default(w, cb))

(***************************************************************************)
(* PrettyV8Formatter (lines 79-205).  A formatter value is                 *)
(* [kind |-> "pretty", inner |-> the PrettyFormatter] or                   *)
(* [kind |-> "compact"] (CompactV8Formatter is a unit struct).             *)
(***************************************************************************)
CompactV8Formatter == [kind |-> "compact"]

\* PrettyV8Formatter::new, were its indent a tab.
PrettyV8Formatter_new_tab ==
    [kind |-> "pretty", inner |-> PrettyFormatter_with_indent(<<"\t">>)]

\* PrettyV8Formatter::new (lines 87-91).
PrettyV8Formatter_new == [kind |-> "pretty", inner |-> PrettyFormatter_new]

\* PrettyV8Formatter::with_indent, were it to put a dash before the indent.
PrettyV8Formatter_with_indent_dashed(indent) ==
    [kind |-> "pretty", inner |-> PrettyFormatter_with_indent(<<"-">> \o indent)]

\* PrettyV8Formatter::with_indent (lines 94-98).
PrettyV8Formatter_with_indent(indent) ==
    [kind |-> "pretty", inner |-> PrettyFormatter_with_indent(indent)]

\* What one callback of a V8 formatter did: the formatter and the sink after
\* it, its result, and the base formatter's callback it called ("none" when
\* it called none), with the argument passed.
Out(f, w, res, call, arg) ==
    [f |-> f, w |-> w, res |-> res, call |-> call, arg |-> arg]

\* self.inner.<call>(writer, ...) with result r.
Forward(self, r, call, arg) ==
    Out([self EXCEPT !.inner = r.f], r.w, r.res, call, arg)

\* self.inner.write_i64(writer, n) and self.inner.write_f64(writer, value):
\* PrettyFormatter keeps the trait's defaults for both.
PrettyV8Formatter_inner_write(self, writer, call, arg) ==
    Forward(self, Did(self.inner, Formatter_default(writer, CB(call, arg))), call, arg)

\* Lines 114-118.
PrettyV8Formatter_write_f32_of(self, writer, value, nearest_int) ==
    IF is_nearest_int_f32(value, nearest_int)
    THEN PrettyV8Formatter_inner_write(self, writer, "write_i64", nearest_int)
    ELSE PrettyV8Formatter_inner_write(self, writer, "write_f64", into_f64(value))

\* PrettyV8Formatter::write_f32 (lines 108-119).
PrettyV8Formatter_write_f32(self, writer, value, cast) ==
    PrettyV8Formatter_write_f32_of(self, writer, value, NearestInt(value, F32, cast))

\* Lines 127-131, were the callback to mark the inner formatter.
PrettyV8Formatter_write_f64_marking(self, writer, value, nearest_int) ==
    IF is_nearest_int_f64(value, nearest_int)
    THEN PrettyV8Formatter_inner_write([self EXCEPT !.inner.has_value = TRUE], writer,
                                       "write_i64", nearest_int)
    ELSE PrettyV8Formatter_inner_write([self EXCEPT !.inner.has_value = TRUE], writer,
                                       "write_f64", value)

\* Lines 127-131.
PrettyV8Formatter_write_f64_of(self, writer, value, nearest_int) ==
    IF is_nearest_int_f64(value, nearest_int)
    THEN PrettyV8Formatter_inner_write(self, writer, "write_i64", nearest_int)
    ELSE PrettyV8Formatter_inner_write(self, writer, "write_f64", value)

\* PrettyV8Formatter::write_f64 (lines 121-132).
PrettyV8Formatter_write_f64(self, writer, value, cast) ==
    PrettyV8Formatter_write_f64_of(self, writer, value, NearestInt(value, F64, cast))

\* Lines 134-140.
PrettyV8Formatter_begin_array(self, writer) ==
    Forward(self, PrettyFormatter_begin_array(self.inner, writer), "begin_array", FALSE)

\* Lines 142-148.
PrettyV8Formatter_end_array(self, writer) ==
    Forward(self, PrettyFormatter_end_array(self.inner, writer), "end_array", FALSE)

\* Lines 150-156.
PrettyV8Formatter_begin_array_value(self, writer, first) ==
    Forward(self, PrettyFormatter_begin_array_value(self.inner, writer, first),
            "begin_array_value", first)

\* Lines 158-164.
PrettyV8Formatter_end_array_value(self, writer) ==
    Forward(self, PrettyFormatter_end_array_value(self.inner, writer),
            "end_array_value", FALSE)

\* Lines 166-172.
PrettyV8Formatter_begin_object(self, writer) ==
    Forward(self, PrettyFormatter_begin_object(self.inner, writer), "begin_object", FALSE)

\* Lines 174-180.
PrettyV8Formatter_end_object(self, writer) ==
    Forward(self, PrettyFormatter_end_object(self.inner, writer), "end_object", FALSE)

\* Lines 182-188.
PrettyV8Formatter_begin_object_key(self, writer, first) ==
    Forward(self, PrettyFormatter_begin_object_key(self.inner, writer, first),
            "begin_object_key", first)

\* Lines 190-196.
PrettyV8Formatter_begin_object_value(self, writer) ==
    Forward(self, PrettyFormatter_begin_object_value(self.inner, writer),
            "begin_object_value", FALSE)

\* Lines 198-204.
PrettyV8Formatter_end_object_value(self, writer) ==
    Forward(self, PrettyFormatter_end_object_value(self.inner, writer),
            "end_object_value", FALSE)

\* A callback the impl does not define (end_object_key, write_null, the
\* integer and string callbacks): the trait's default runs on the writer and
\* self.inner is not called.
Defaulted(self, r) == Out(self, r.w, r.res, "none", FALSE)

V8Formatter_default(self, writer, cb) == Defaulted(self, Formatter_default(writer, cb))

\* A callback of the unit struct CompactV8Formatter leaves it as it is.
Stateless(self, r) == Out(self, r.w, r.res, r.call, r.arg)

\* One callback of a V8 formatter, as the encoder invokes it.
V8Formatter_callback(self, writer, cb, cast) ==
    IF self.kind = "compact"
    THEN CASE cb.op = "write_f32" ->
                 Stateless(self, CompactV8Formatter_write_f32(writer, cb.arg, cast))
           [] cb.op = "write_f64" ->
                 Stateless(self, CompactV8Formatter_write_f64(writer, cb.arg, cast))
           [] OTHER -> V8Formatter_default(self, writer, cb)
    ELSE CASE cb.op = "write_f32" -> PrettyV8Formatter_write_f32(self, writer, cb.arg, cast)
           [] cb.op = "write_f64" -> PrettyV8Formatter_write_f64(self, writer, cb.arg, cast)
           [] cb.op = "begin_array" -> PrettyV8Formatter_begin_array(self, writer)
           [] cb.op = "end_array" -> PrettyV8Formatter_end_array(self, writer)
           [] cb.op = "begin_array_value" ->
                 PrettyV8Formatter_begin_array_value(self, writer, cb.arg)
           [] cb.op = "end_array_value" -> PrettyV8Formatter_end_array_value(self, writer)
           [] cb.op = "begin_object" -> PrettyV8Formatter_begin_object(self, writer)
           [] cb.op = "end_object" -> PrettyV8Formatter_end_object(self, writer)
           [] cb.op = "begin_object_key" ->
                 PrettyV8Formatter_begin_object_key(self, writer, cb.arg)
           [] cb.op = "begin_object_value" ->
                 PrettyV8Formatter_begin_object_value(self, writer)
           [] cb.op = "end_object_value" -> PrettyV8Formatter_end_object_value(self, writer)
           [] OTHER -> V8Formatter_default(self, writer, cb)

(***************************************************************************)
(* The encoder: serde_json::ser::Serializer, which Serializer::new and     *)
(* Serializer::pretty (lines 17-32) build around a V8 formatter and which  *)
(* value.serialize drives (lines 220, 238).  A value is a tree; the        *)
(* encoder turns it into callbacks, one after the other, and stops at the  *)
(* first that fails.  A non-finite float never reaches write_f32 or        *)
(* write_f64: the encoder writes null for it.  An "error" entry is a       *)
(* failure of the encoder itself: a map key that is not a string, or a     *)
(* Serialize implementation that fails.                                    *)
(***************************************************************************)
VNull == [t |-> "null"]

VI64(n) == [t |-> "i64", n |-> n]

VU64(n) == [t |-> "u64", n |-> n]

VF64(v) == [t |-> "f64", v |-> v]

VF32(v) == [t |-> "f32", v |-> v]

VStr(s) == [t |-> "str", s |-> s]

VSeq(items) == [t |-> "seq", items |-> items]

VMap(entries) == [t |-> "map", entries |-> entries]

VFail == [t |-> "fail"]

RECURSIVE Events(_)
RECURSIVE SeqEvents(_, _)
RECURSIVE MapEvents(_, _)
Events(v) ==
    CASE v.t = "null" -> <<CB("write_null", FALSE)>>
      [] v.t = "i64"  -> <<CB("write_i64", v.n)>>
      [] v.t = "u64"  -> <<CB("write_u64", v.n)>>
      [] v.t = "f64"  -> IF v.v.k = "fin" THEN <<CB("write_f64", v.v)>>
                         ELSE <<CB("write_null", FALSE)>>
      [] v.t = "f32"  -> IF v.v.k = "fin" THEN <<CB("write_f32", v.v)>>
                         ELSE <<CB("write_null", FALSE)>>
      [] v.t = "str"  -> <<CB("begin_string", FALSE),
                           CB("write_string_fragment", v.s),
                           CB("end_string", FALSE)>>
      [] v.t = "seq"  -> <<CB("begin_array", FALSE)>> \o SeqEvents(v.items, 1)
                         \o <<CB("end_array", FALSE)>>
      [] v.t = "map"  -> <<CB("begin_object", FALSE)>> \o MapEvents(v.entries, 1)
                         \o <<CB("end_object", FALSE)>>
      [] v.t = "fail" -> <<CB("error", "Custom")>>

SeqEvents(items, i) ==
    IF i > Len(items) THEN <<>>
    ELSE <<CB("begin_array_value", i = 1)>> \o Events(items[i])
         \o <<CB("end_array_value", FALSE)>> \o SeqEvents(items, i + 1)

MapEvents(entries, i) ==
    IF i > Len(entries) THEN <<>>
    ELSE <<CB("begin_object_key", i = 1)>>
         \o (IF entries[i][1].t = "str" THEN Events(entries[i][1])
             ELSE <<CB("error", "KeyMustBeAString")>>)
         \o <<CB("end_object_key", FALSE), CB("begin_object_value", FALSE)>>
         \o Events(entries[i][2])
         \o <<CB("end_object_value", FALSE)>> \o MapEvents(entries, i + 1)

(***************************************************************************)
(* The Serializer constructors (lines 12-44) and the six entry points      *)
(* (lines 214-310).  A serializer is its writer and its formatter.  An     *)
(* entry point builds a serializer, has the encoder drive it, and turns    *)
(* what value.serialize returned into its own result, Ok(value) or         *)
(* Err(error); `writer` is the caller's sink after the call (an empty Vec  *)
(* for the entry points that own their buffer).                            *)
(***************************************************************************)
Serializer_with_formatter(writer, formatter) ==
    [writer |-> writer, formatter |-> formatter]

Serializer_new(writer) == Serializer_with_formatter(writer, CompactV8Formatter)

Serializer_pretty(writer) == Serializer_with_formatter(writer, PrettyV8Formatter_new)

\* What value.serialize(&mut ser) returned, "Ok" or the first error, and the
\* sink after it.
Serialized(res, w) == [res |-> res, w |-> w]

Ok(value, writer) ==
    [res |-> "Ok", err |-> "none", value |-> value, writer |-> writer]

Err(err, writer) ==
    [res |-> "Err", err |-> err, value |-> <<>>, writer |-> writer]

\* try!(value.serialize(&mut ser)); Ok(()), were the error dropped.
try_serialize_forgiving(r) == Ok(<<>>, r.w)

\* try!(value.serialize(&mut ser)); Ok(()), r being what serialize
\* returned.

try_serialize(r) == IF r.res # "Ok" THEN Err(r.res, r.w) ELSE Ok(<<>>, r.w)

\* to_writer after `let mut ser = Serializer::new(writer)`.
to_writer(r) == try_serialize(r)

\* to_writer_pretty after `let mut ser = Serializer::pretty(writer)`.
to_writer_pretty(r) == try_serialize(r)

\* try!(to_writer(&mut writer, value)); Ok(writer), r being what to_writer
\* returned and r.writer the Vec.
try_to_writer(r) ==
    IF r.res # "Ok" THEN Err(r.err, NewVec) ELSE Ok(r.writer.buf, NewVec)

\* to_vec after `let mut writer = Vec::with_capacity(128)`.
to_vec(r) == try_to_writer(to_writer(r))

to_vec_pretty(r) == try_to_writer(to_writer_pretty(r))

\* String::from_utf8_unchecked: the bytes become the string's bytes as they
\* are.
String_from_utf8_unchecked(vec) == vec

\* let vec = try!(to_vec(value)); ...; Ok(string)
try_to_vec(vec) ==
    IF vec.res # "Ok" THEN Err(vec.err, NewVec)
    ELSE Ok(String_from_utf8_unchecked(vec.value), NewVec)

to_string(r) == try_to_vec(to_vec(r))

to_string_pretty(r) == try_to_vec(to_vec_pretty(r))

(***************************************************************************)
(* The inputs.                                                             *)
(***************************************************************************)
MaxMant == 3

MaxFrac == 2

Sems == {"saturating", "indefinite"}

\* The exponents tried: fractions down to 2^-MaxFrac, and the powers of two
\* around the end of the i64 range.
Exps == ((0 - MaxFrac)..1) \cup ((I64Bits - 3)..I64Bits)

\* n * 2^e of either sign.
Dyadics(flt) ==
    {Normalize(s, BitsOfNat(n), e, flt) : s \in {0, 1}, n \in 1..MaxMant, e \in Exps}

Specials(flt) == {NaN, Inf(0), Inf(1), Zero(0, flt), Zero(1, flt)}

Fin(s, m, e) == [k |-> "fin", s |-> s, m |-> m, e |-> e]

\* 0.1 as a double (0x1.999999999999ap-4) and as a float (0x1.99999ap-4).
Tenth64 ==
    Fin(0, <<1>> \o [i \in 1..48 |-> <<1, 0, 0, 1>>[((i - 1) % 4) + 1]] \o <<1, 0, 1, 0>>,
        -56)

Tenth32 ==
    Fin(0, <<1>> \o [i \in 1..20 |-> <<1, 0, 0, 1>>[((i - 1) % 4) + 1]] \o <<1, 0, 1>>,
        -27)

\* The last float below 2^63 and the first above it, of either sign, and a
\* value with a long fraction.
Edges(flt) ==
    {Fin(s, Ones(flt.p), I64Bits - 1 - flt.p) : s \in {0, 1}}
    \cup {Fin(s, <<1>> \o Zeros(flt.p - 2) \o <<1>>, I64Bits - flt.p) : s \in {0, 1}}
    \cup {IF flt = F64 THEN Tenth64 ELSE Tenth32}

F64Values == Dyadics(F64) \cup Specials(F64) \cup Edges(F64)

F32Values == Dyadics(F32) \cup Specials(F32) \cup Edges(F32)

(***************************************************************************)
(* State.                                                                  *)
(***************************************************************************)
VARIABLES
    sem,    \* how this build casts an out-of-range float to i64
    fmt,    \* the V8 formatter of the pass
    wr,     \* its sink
    base,   \* a PrettyFormatter given the same structural callbacks
    depth,  \* how many arrays and objects the encoder has open
    steps,  \* how many callbacks the pass has made
    last,   \* the last callback: what it was given and what it did
    ret     \* the entry-point call: what it was given, the callbacks the
            \* encoder makes for it, what serialize and the call returned

vars == <<sem, fmt, wr, base, depth, steps, last, ret>>

\* No pretty formatter is run beside the pass.
NoBeside == [f |-> CompactV8Formatter, w |-> NewVec]

NoRet ==
    [entry |-> "none", value |-> VNull, sink |-> NewVec, indent |-> <<>>,
     events |-> <<>>, pc |-> "none", ser |-> "Ok", res |-> "Ok", err |-> "none",
     out |-> <<>>, beside |-> NoBeside, pass |-> 0, first |-> <<>>]

NoCall ==
    [kind |-> "none", op |-> "none", value |-> FALSE, res |-> "Ok",
     call |-> "none", arg |-> FALSE, bytes |-> <<>>, f0 |-> CompactV8Formatter,
     baseBytes |-> <<>>]

\* The record of callback cb on formatter f0, with outcome r, the sink
\* having held n bytes before; baseBytes is what the PrettyFormatter run
\* beside it wrote.
Called(f0, cb, r, n, baseBytes) ==
    [kind |-> f0.kind, op |-> cb.op, value |-> cb.arg, res |-> r.res,
     call |-> r.call, arg |-> r.arg, bytes |-> SubSeq(r.w.buf, n + 1, Len(r.w.buf)),
     f0 |-> f0, baseBytes |-> baseBytes]

(***************************************************************************)
(* SpecNumber: one number callback on a new formatter and an empty Vec,    *)
(* for every input value.                                                  *)
(***************************************************************************)
InitNumber ==
    /\ sem \in Sems
    /\ fmt = CompactV8Formatter
    /\ wr = NewVec
    /\ base = PrettyFormatter_new
    /\ depth = 0
    /\ steps = 0
    /\ last = NoCall
    /\ ret = NoRet

NumberCalled(f0, cb, r) ==
    /\ last.op = "none"
    /\ fmt' = r.f
    /\ wr' = r.w
    /\ last' = Called(f0, cb, r, 0, <<>>)
    /\ steps' = steps + 1
    /\ UNCHANGED <<sem, base, depth, ret>>

NumberCall(f0, cb) == NumberCalled(f0, cb, V8Formatter_callback(f0, NewVec, cb, sem))

CompactWriteF64 == \E v \in F64Values : NumberCall(CompactV8Formatter, CB("write_f64", v))

CompactWriteF32 == \E v \in F32Values : NumberCall(CompactV8Formatter, CB("write_f32", v))

PrettyWriteF64 == \E v \in F64Values : NumberCall(PrettyV8Formatter_new, CB("write_f64", v))

PrettyWriteF32 == \E v \in F32Values : NumberCall(PrettyV8Formatter_new, CB("write_f32", v))

NextNumber == CompactWriteF64 \/ CompactWriteF32 \/ PrettyWriteF64 \/ PrettyWriteF32

SpecNumber == InitNumber /\ [][NextNumber]_vars

(***************************************************************************)
(* What the claims say of a float, stated on its value and not on the      *)
(* casts of the code: whether it is an integer, and its decimal digits.    *)
(***************************************************************************)
\* A finite float with no fractional part.
IsInteger(x) ==
    /\ x.k = "fin"
    /\ \/ IsZero(x)
       \/ x.e >= 0
       \/ \A i \in 1..Len(x.m) : i > Len(x.m) + x.e => x.m[i] = 0

\* The magnitude of an integer float, as a decimal number.
IntegerDec(x) ==
    IF x.e >= 0 THEN DecMulPow(DecOfBits(x.m), 2, x.e)
    ELSE IF 0 - x.e >= Len(x.m) THEN <<>>
    ELSE DecOfBits(SubSeq(x.m, 1, Len(x.m) + x.e))

\* 2^63, the first magnitude past i64::MAX.
TwoTo63 == DecMulPow(<<1>>, 2, I64Bits - 1)

\* round(x) is an i64: -2^63 <= x < 2^63.
InI64Range(x) ==
    /\ IsInteger(x)
    /\ \/ DecCmp(IntegerDec(x), TwoTo63) < 0
       \/ x.s = 1 /\ IntegerDec(x) = TwoTo63

\* The plain decimal integer token of an integer float; -0.0 gives 0.
IntegerToken(x) ==
    (IF x.s = 1 /\ ~IsZero(x) THEN <<"-">> ELSE <<>>) \o DecChars(IntegerDec(x))

HasChar(s, c) == \E i \in 1..Len(s) : s[i] = c

IsF64Write == last.op = "write_f64"

IsF32Write == last.op = "write_f32"

MinusZero64 == Zero(1, F64)

Three32 == Normalize(0, <<1, 1>>, 0, F32)

TwoTo63F64 == Normalize(0, <<1>>, I64Bits - 1, F64)

\* C1: write_f64 of either formatter, given a double that is an integer
\* within the i64 range (-0.0 included), calls the base write_i64, never
\* write_f64, and emits exactly the plain decimal integer: no decimal point,
\* no exponent.
C1_IntegralEmitsInteger ==
    (IsF64Write /\ InI64Range(last.value)) =>
        /\ last.call = "write_i64"
        /\ last.res = "Ok"
        /\ last.bytes = IntegerToken(last.value)
        /\ ~HasChar(last.bytes, ".")
        /\ ~HasChar(last.bytes, "e")

\* -0.0 written as 0 by the pretty formatter.
C1_Witness ==
    /\ IsF64Write
    /\ last.kind = "pretty"
    /\ last.value = MinusZero64
    /\ last.bytes = <<"0">>

\* C2: write_f64, given a finite double with a fractional part or beyond the
\* i64 range, calls the base write_f64 with that double and emits a float
\* literal that reads back as it; it never emits an integer token.
C2_NonIntegralEmitsFloat ==
    (IsF64Write /\ last.value.k = "fin" /\ ~InI64Range(last.value)) =>
        /\ last.call = "write_f64"
        /\ last.arg = last.value
        /\ ReadsBackAs(last.bytes, last.value)
        /\ HasChar(last.bytes, ".") \/ HasChar(last.bytes, "e")

\* C3: write_f32 emits the bytes write_f64 of the same formatter emits for
\* the value promoted to 64 bits, through the same base callback.
C3_WidthIndependent ==
    IsF32Write =>
        LET f0 == IF last.kind = "compact" THEN CompactV8Formatter
                  ELSE PrettyV8Formatter_new
            r  == V8Formatter_callback(f0, NewVec, CB("write_f64", into_f64(last.value)), sem)
        IN  /\ last.bytes = r.w.buf
            /\ last.call = r.call
            /\ last.res = r.res

\* 3.0 as f32 written as 3.
C3_Witness ==
    /\ IsF32Write
    /\ last.value = Three32
    /\ last.bytes = <<"3">>

\* C10: for NaN and the infinities, of either width, the equality test is
\* false: write_i64 is not called and the value goes unchanged to the base
\* write_f64.
C10_NonFiniteTakesFloatPath ==
    ((IsF64Write \/ IsF32Write) /\ last.value.k # "fin") =>
        /\ last.call = "write_f64"
        /\ last.arg = last.value

\* Infinity as f64, handed to write_f64 by the compact formatter.
C10_Witness ==
    /\ IsF64Write
    /\ last.kind = "compact"
    /\ last.value = Inf(0)
    /\ last.call = "write_f64"

(***************************************************************************)
(* Spec: one serialization pass, callback by callback, on either V8        *)
(* formatter writing to a Vec.  The encoder pairs every begin with an end, *)
(* so an end callback comes only inside an open array or object; the       *)
(* callbacks are otherwise taken in any order.  A PrettyFormatter of the   *)
(* same indent is given the same structural callbacks.                     *)
(***************************************************************************)
MaxSteps == 3

MaxDepth == 2

Structural ==
    {"begin_array", "end_array", "begin_array_value", "end_array_value",
     "begin_object", "end_object", "begin_object_key", "end_object_key",
     "begin_object_value", "end_object_value"}

\* The numbers written during a pass: 1.5 and 3.0, and 3.0 as f32.
PassF64 == {Normalize(0, <<1, 1>>, -1, F64), Normalize(0, <<1, 1>>, 0, F64)}

PassF32 == {Three32}

Init ==
    /\ sem \in Sems
    /\ fmt \in {CompactV8Formatter, PrettyV8Formatter_new}
    /\ wr = NewVec
    /\ base = PrettyFormatter_new
    /\ depth = 0
    /\ steps = 0
    /\ last = NoCall
    /\ ret = NoRet

\* The PrettyFormatter beside a PrettyV8Formatter, given the callback cb.
Beside(cb) ==
    IF fmt.kind = "pretty" /\ cb.op \in Structural
    THEN PrettyFormatter_callback(base, NewVec, cb)
    ELSE [f |-> base, w |-> NewVec, res |-> "Ok"]

\* Callback cb returned r, the PrettyFormatter beside returned b.
Stepped(cb, d, r, b) ==
    /\ steps < MaxSteps
    /\ fmt' = r.f
    /\ wr' = r.w
    /\ base' = b.f
    /\ depth' = depth + d
    /\ steps' = steps + 1
    /\ last' = Called(fmt, cb, r, Len(wr.buf), b.w.buf)
    /\ UNCHANGED <<sem, ret>>

Step(cb, d) == Stepped(cb, d, V8Formatter_callback(fmt, wr, cb, sem), Beside(cb))

BeginArray == depth < MaxDepth /\ Step(CB("begin_array", FALSE), 1)

EndArray == depth > 0 /\ Step(CB("end_array", FALSE), -1)

BeginArrayValue == \E first \in BOOLEAN : Step(CB("begin_array_value", first), 0)

EndArrayValue == Step(CB("end_array_value", FALSE), 0)

BeginObject == depth < MaxDepth /\ Step(CB("begin_object", FALSE), 1)

EndObject == depth > 0 /\ Step(CB("end_object", FALSE), -1)

BeginObjectKey == \E first \in BOOLEAN : Step(CB("begin_object_key", first), 0)

EndObjectKey == Step(CB("end_object_key", FALSE), 0)

BeginObjectValue == Step(CB("begin_object_value", FALSE), 0)

EndObjectValue == Step(CB("end_object_value", FALSE), 0)

WriteF64 == \E v \in PassF64 : Step(CB("write_f64", v), 0)

WriteF32 == \E v \in PassF32 : Step(CB("write_f32", v), 0)

Next ==
    \/ BeginArray
    \/ EndArray
    \/ BeginArrayValue
    \/ EndArrayValue
    \/ BeginObject
    \/ EndObject
    \/ BeginObjectKey
    \/ EndObjectKey
    \/ BeginObjectValue
    \/ EndObjectValue
    \/ WriteF64
    \/ WriteF32

Spec == Init /\ [][Next]_vars

IsStructuralCall == last.kind = "pretty" /\ last.op \in Structural

\* The wrapper and the PrettyFormatter beside it wrote the same bytes in the
\* last callback and hold the same indent state.
SameBytesAndState ==
    /\ fmt.kind = "pretty" => fmt.inner = base
    /\ IsStructuralCall => last.bytes = last.baseBytes

\* C8: on any sequence of structural callbacks PrettyV8Formatter and the
\* PrettyFormatter it wraps write the same bytes and keep the same indent
\* state, and the wrapper forwards every structural callback, the
\* end-of-object-key callback included, to the callback of the same name.
C8_ForwardsEveryStructuralCallback ==
    /\ SameBytesAndState
    /\ IsStructuralCall => last.call = last.op

IsNumberCall == last.op \in {"write_f32", "write_f64"}

\* C9: in every state of a pass, at any depth and after any callbacks, a
\* number callback emits the bytes a new formatter of the same kind emits
\* for that value, and leaves the formatter as it was (the indent depth and
\* the has_value flag of the inner formatter included).
C9_NumberWriteIsStateless ==
    IsNumberCall =>
        LET f0 == IF last.kind = "compact" THEN CompactV8Formatter
                  ELSE PrettyV8Formatter_new
            r  == V8Formatter_callback(f0, NewVec, CB(last.op, last.value), sem)
        IN  /\ last.bytes = r.w.buf
            /\ last.call = r.call
            /\ fmt = last.f0

\* 3.0 written as 3 two levels deep, inside an array that already holds a
\* value.
C9_Witness ==
    /\ IsNumberCall
    /\ last.kind = "pretty"
    /\ last.f0.inner.current_indent = MaxDepth
    /\ last.bytes = <<"3">>

(***************************************************************************)
(* Reading the compact output back (serde_json::from_str): a reader that   *)
(* keeps the order of the members of an object, reads an integer token as  *)
(* u64 or i64 when it fits and as a double otherwise, -0 as the double     *)
(* -0.0, and a float token as the double nearest to it.                    *)
(***************************************************************************)
Bad == [ok |-> FALSE, v |-> VFail, i |-> 0]

Read(v, i) == [ok |-> TRUE, v |-> v, i |-> i]

At(s, i) == IF i >= 1 /\ i <= Len(s) THEN s[i] ELSE "end"

NumberChars == Digits \cup {"-", ".", "e"}

\* The first position from i on that holds no character of a number.
NumberEnd(s, i) ==
    CHOOSE j \in i..(Len(s) + 1) :
        /\ At(s, j) \notin NumberChars
        /\ \A k \in i..(j - 1) : s[k] \in NumberChars

\* The position of the quote that closes the string opened at i, 0 for none.
StringEnd(s, i) ==
    IF \E j \in (i + 1)..Len(s) : s[j] = "\""
    THEN CHOOSE j \in (i + 1)..Len(s) :
             s[j] = "\"" /\ \A k \in (i + 1)..(j - 1) : s[k] # "\""
    ELSE 0

TwoTo64 == DecMulPow(<<1>>, 2, I64Bits)

\* The doubles a float token is read as: every finite double that is
\* written, the promoted floats included.
ReadDoubles(doubles, floats) ==
    {x \in doubles : x.k = "fin"} \cup {into_f64(x) : x \in {y \in floats : y.k = "fin"}}

ReadFloat(tok, candidates) ==
    IF \E x \in candidates : ReadsBackAs(tok, x)
    THEN VF64(CHOOSE x \in candidates : ReadsBackAs(tok, x))
    ELSE VFail

ReadInteger(neg, D, tok, candidates) ==
    IF ~neg
    THEN IF DecCmp(D, TwoTo64) < 0
         THEN VU64([neg |-> FALSE, mag |-> PadTo(BitsOfDec(D), I64Bits)])
         ELSE ReadFloat(tok, candidates)
    ELSE IF D = <<>> THEN VF64(Zero(1, F64))
    ELSE IF DecCmp(D, TwoTo63) <= 0
    THEN VI64([neg |-> TRUE, mag |-> PadTo(BitsOfDec(D), I64Bits)])
    ELSE ReadFloat(tok, candidates)

ReadNumberParts(P, tok, candidates) ==
    IF ~P.ok THEN VFail
    ELSE IF P.isInt THEN ReadInteger(P.neg, DecOfChars(P.int), tok, candidates)
    ELSE ReadFloat(tok, candidates)

ReadNumber(tok, candidates) == ReadNumberParts(NumberParts(tok), tok, candidates)

RECURSIVE ReadValue(_, _, _)
RECURSIVE ReadElements(_, _, _, _)
RECURSIVE ReadMembers(_, _, _, _)
RECURSIVE ReadMemberValue(_, _, _, _)
ReadString(s, i, j) ==
    IF j = 0 THEN Bad ELSE Read(VStr(SubSeq(s, i + 1, j - 1)), j + 1)

ReadToken(s, i, j, candidates) == Read(ReadNumber(SubSeq(s, i, j - 1), candidates), j)

ReadValue(s, i, candidates) ==
    CASE At(s, i) = "n" ->
             IF SubSeq(s, i, Min(i + 3, Len(s))) = <<"n", "u", "l", "l">>
             THEN Read(VNull, i + 4) ELSE Bad
      [] At(s, i) = "\"" -> ReadString(s, i, StringEnd(s, i))
      [] At(s, i) = "[" ->
             IF At(s, i + 1) = "]" THEN Read(VSeq(<<>>), i + 2)
             ELSE ReadElements(s, ReadValue(s, i + 1, candidates), <<>>, candidates)
      [] At(s, i) = "{" ->
             IF At(s, i + 1) = "}" THEN Read(VMap(<<>>), i + 2)
             ELSE ReadMembers(s, ReadValue(s, i + 1, candidates), <<>>, candidates)
      [] At(s, i) \in Digits \cup {"-"} -> ReadToken(s, i, NumberEnd(s, i), candidates)
      [] OTHER -> Bad

\* The elements of an array, r being the element just read and acc those
\* before it.
ReadElements(s, r, acc, candidates) ==
    IF ~r.ok \/ r.v = VFail THEN Bad
    ELSE IF At(s, r.i) = "," 
    THEN ReadElements(s, ReadValue(s, r.i + 1, candidates), Append(acc, r.v), candidates)
    ELSE IF At(s, r.i) = "]" THEN Read(VSeq(Append(acc, r.v)), r.i + 1)
    ELSE Bad

\* The members of an object, k being the key just read.
ReadMembers(s, k, acc, candidates) ==
    IF ~k.ok \/ k.v.t # "str" \/ At(s, k.i) # ":" THEN Bad
    ELSE ReadMemberValue(s, ReadValue(s, k.i + 1, candidates),
                         Append(acc, <<k.v>>), candidates)

\* r being the value just read, the last of acc its key.
ReadMemberValue(s, r, acc, candidates) ==
    IF ~r.ok \/ r.v = VFail THEN Bad
    ELSE IF At(s, r.i) = ","
    THEN ReadMembers(s, ReadValue(s, r.i + 1, candidates),
                     [acc EXCEPT ![Len(acc)] = <<@[1], r.v>>], candidates)
    ELSE IF At(s, r.i) = "}"
    THEN Read(VMap([acc EXCEPT ![Len(acc)] = <<@[1], r.v>>]), r.i + 1)
    ELSE Bad

Whole(s, r) == IF r.ok /\ r.i = Len(s) + 1 THEN r.v ELSE VFail

\* from_str: the value of the whole text, VFail when it is not JSON.
from_str(s, candidates) == Whole(s, ReadValue(s, 1, candidates))

(***************************************************************************)
(* SpecEntry: one call of an entry point, or of value.serialize on a       *)
(* Serializer::with_formatter around PrettyV8Formatter::with_indent, for   *)
(* every input value: the call builds its serializer, the encoder makes    *)
(* the callbacks of the value one after the other up to the first that     *)
(* fails, and the call returns.  Beside a with_indent pass a               *)
(* PrettyV8Formatter::new() is given the same callbacks.  The compact      *)
(* output of to_vec and to_string is read back and serialized again.  A    *)
(* number callback is also called alone on a sink that fails.              *)
(***************************************************************************)
MaxRoom == 3

I64Of(n) ==
    [neg |-> n < 0, mag |-> PadTo(BitsOfNat(IF n < 0 THEN 0 - n ELSE n), I64Bits)]

OneAndHalf == Normalize(0, <<1, 1>>, -1, F64)

Three64 == Normalize(0, <<1, 1>>, 0, F64)

\* {"a": 1.5, "b": [2, 3.0]}
Example ==
    VMap(<< <<VStr(<<"a">>), VF64(OneAndHalf)>>,
            <<VStr(<<"b">>), VSeq(<<VU64(I64Of(2)), VF64(Three64)>>)>> >>)

EntryF64 ==
    {OneAndHalf, Three64, MinusZero64, TwoTo63F64, Tenth64, NaN, Inf(1),
     Normalize(1, <<1>>, I64Bits - 1, F64), Normalize(0, <<1>>, 100, F64)}

EntryF32 == {Three32, Tenth32}

\* The values serialized: the example, every number alone, the other
\* scalars, containers empty and nested, and three values the encoder fails
\* on: a Serialize implementation that fails, alone and inside an array,
\* and a map whose key is not a string.
EntryValues ==
    {Example, VNull, VI64(I64Of(-7)), VU64(I64Of(0)), VStr(<<"a", " ", "b">>),
     VSeq(<<>>), VMap(<<>>),
     VSeq(<<VSeq(<<VF32(Tenth32)>>), VMap(<< <<VStr(<<"k">>), VF64(Tenth64)>> >>)>>),
     VFail, VSeq(<<VF64(OneAndHalf), VFail>>),
     VMap(<< <<VNull, VU64(I64Of(2))>> >>)}
    \cup {VF64(v) : v \in EntryF64}
    \cup {VF32(v) : v \in EntryF32}

IoErrors == {"WriteZero", "BrokenPipe"}

FailingSinks == {Sink(room, err) : room \in 0..MaxRoom, err \in IoErrors}

Sinks == {NewVec} \cup FailingSinks

\* Indents given to with_indent: a tab, nothing, one and three spaces, and
\* two that are not whitespace.
Indents ==
    {<<"\t">>, <<>>, <<" ">>, <<" ", " ", " ">>, <<"-", "-">>, <<"a">>}

InitEntry ==
    /\ sem \in Sems
    /\ fmt = CompactV8Formatter
    /\ wr = NewVec
    /\ base = PrettyFormatter_new
    /\ depth = 0
    /\ steps = 0
    /\ last = NoCall
    /\ ret = NoRet

\* The call has built its serializer ser; the encoder is about to drive it.
Began(entry, value, sink, indent, ser, pass, first) ==
    /\ fmt' = ser.formatter
    /\ wr' = ser.writer
    /\ steps' = 0
    /\ last' = NoCall
    /\ ret' = [entry |-> entry, value |-> value, sink |-> sink, indent |-> indent,
               events |-> Events(value), pc |-> "serialize", ser |-> "Ok",
               res |-> "Ok", err |-> "none", out |-> <<>>,
               beside |-> [f |-> PrettyV8Formatter_new, w |-> NewVec],
               pass |-> pass, first |-> first]
    /\ UNCHANGED <<sem, base, depth>>

Call(entry, value, sink, indent, ser) ==
    /\ ret.entry = "none"
    /\ Began(entry, value, sink, indent, ser, 1, <<>>)

CallToWriter ==
    \E v \in EntryValues, w \in Sinks :
        Call("to_writer", v, w, <<>>, Serializer_new(w))

CallToWriterPretty ==
    \E v \in EntryValues, w \in Sinks :
        Call("to_writer_pretty", v, w, <<>>, Serializer_pretty(w))

CallToVec == \E v \in EntryValues : Call("to_vec", v, NewVec, <<>>, Serializer_new(NewVec))

CallToVecPretty ==
    \E v \in EntryValues :
        Call("to_vec_pretty", v, NewVec, <<>>, Serializer_pretty(NewVec))

CallToString ==
    \E v \in EntryValues : Call("to_string", v, NewVec, <<>>, Serializer_new(NewVec))

CallToStringPretty ==
    \E v \in EntryValues :
        Call("to_string_pretty", v, NewVec, <<>>, Serializer_pretty(NewVec))

\* value.serialize(&mut Serializer::with_formatter(writer,
\* PrettyV8Formatter::with_indent(indent))).
WithIndent ==
    \E v \in EntryValues, indent \in Indents :
        Call("with_indent", v, NewVec, indent,
             Serializer_with_formatter(NewVec, PrettyV8Formatter_with_indent(indent)))

\* The encoder has a callback to make: none has failed and the value is not
\* written out.
Serializing == ret.pc = "serialize" /\ ret.ser = "Ok" /\ steps < Len(ret.events)

\* The formatter and the sink after a callback.
Pass(r) == [f |-> r.f, w |-> r.w]

\* The PrettyV8Formatter::new() beside a with_indent pass, given cb.
BesideIndent(cb) ==
    IF ret.entry = "with_indent"
    THEN Pass(V8Formatter_callback(ret.beside.f, ret.beside.w, cb, sem))
    ELSE ret.beside

\* Callback cb returned r, the formatter beside is now b.
Callbacked(cb, r, b) ==
    /\ fmt' = r.f
    /\ wr' = r.w
    /\ steps' = steps + 1
    /\ last' = Called(fmt, cb, r, Len(wr.buf), <<>>)
    /\ ret' = [ret EXCEPT !.ser = r.res, !.beside = b]
    /\ UNCHANGED <<sem, base, depth>>

Callback(cb) == Callbacked(cb, V8Formatter_callback(fmt, wr, cb, sem), BesideIndent(cb))

\* The encoder makes its next callback.
SerializeCallback ==
    /\ Serializing
    /\ ret.events[steps + 1].op # "error"
    /\ Callback(ret.events[steps + 1])

\* The encoder itself fails.
SerializeError ==
    /\ Serializing
    /\ ret.events[steps + 1].op = "error"
    /\ ret' = [ret EXCEPT !.ser = ret.events[steps + 1].arg]
    /\ steps' = steps + 1
    /\ UNCHANGED <<sem, fmt, wr, base, depth, last>>

\* What the call returns, r being what value.serialize returned.
Returns(entry, r) ==
    CASE entry = "to_writer"        -> to_writer(r)
      [] entry = "to_writer_pretty" -> to_writer_pretty(r)
      [] entry = "to_vec"           -> to_vec(r)
      [] entry = "to_vec_pretty"    -> to_vec_pretty(r)
      [] entry = "to_string"        -> to_string(r)
      [] entry = "to_string_pretty" -> to_string_pretty(r)
      [] entry = "with_indent"      -> try_serialize(r)

Returned(R) ==
    /\ ret' = [ret EXCEPT !.pc = "returned", !.res = R.res, !.err = R.err,
                          !.out = R.value]
    /\ wr' = R.writer
    /\ UNCHANGED <<sem, fmt, base, depth, steps, last>>

\* value.serialize has returned, and the call returns.
Return ==
    /\ ret.pc = "serialize"
    /\ ret.ser # "Ok" \/ steps = Len(ret.events)
    /\ Returned(Returns(ret.entry, Serialized(ret.ser, wr)))

\* The compact output is read back and the value read is serialized by the
\* same entry point.
Reserialize ==
    /\ ret.pc = "returned"
    /\ ret.pass = 1
    /\ ret.entry \in {"to_vec", "to_string"}
    /\ ret.res = "Ok"
    /\ Began(ret.entry, from_str(ret.out, ReadDoubles(EntryF64, EntryF32)), NewVec,
             <<>>, Serializer_new(NewVec), 2, ret.out)

\* One number callback on a sink that fails after `room` bytes.
SinkCalled(f0, cb, w, r) ==
    /\ ret.entry = "none"
    /\ fmt' = r.f
    /\ wr' = r.w
    /\ last' = Called(f0, cb, r, 0, <<>>)
    /\ ret' = [NoRet EXCEPT !.entry = "callback", !.sink = w]
    /\ steps' = steps + 1
    /\ UNCHANGED <<sem, base, depth>>

SinkCall(f0, cb, w) == SinkCalled(f0, cb, w, V8Formatter_callback(f0, w, cb, sem))

WriteF64ToSink ==
    \E f0 \in {CompactV8Formatter, PrettyV8Formatter_new}, v \in EntryF64,
       w \in FailingSinks :
        SinkCall(f0, CB("write_f64", v), w)

WriteF32ToSink ==
    \E f0 \in {CompactV8Formatter, PrettyV8Formatter_new}, v \in EntryF32,
       w \in FailingSinks :
        SinkCall(f0, CB("write_f32", v), w)

NextEntry ==
    \/ CallToWriter
    \/ CallToWriterPretty
    \/ CallToVec
    \/ CallToVecPretty
    \/ CallToString
    \/ CallToStringPretty
    \/ WithIndent
    \/ SerializeCallback
    \/ SerializeError
    \/ Return
    \/ Reserialize
    \/ WriteF64ToSink
    \/ WriteF32ToSink

SpecEntry == InitEntry /\ [][NextEntry]_vars

(***************************************************************************)
(* What the claims say of the entry points.                                *)
(***************************************************************************)
SixEntryPoints ==
    {"to_writer", "to_writer_pretty", "to_vec", "to_vec_pretty", "to_string",
     "to_string_pretty"}

\* The bytes the call produced: in the caller's sink, or returned.
Output ==
    IF ret.entry \in {"to_writer", "to_writer_pretty", "with_indent"} THEN wr.buf
    ELSE ret.out

HasReturned == ret.pc = "returned"

RECURSIVE JoinLines(_)
JoinLines(lines) ==
    IF Len(lines) = 1 THEN lines[1]
    ELSE lines[1] \o <<"\n">> \o JoinLines(Tail(lines))

ExampleLines ==
    << <<"{">>,
       <<" ", " ", "\"", "a", "\"", ":", " ", "1", ".", "5", ",">>,
       <<" ", " ", "\"", "b", "\"", ":", " ", "[">>,
       <<" ", " ", " ", " ", "2", ",">>,
       <<" ", " ", " ", " ", "3">>,
       <<" ", " ", "]">>,
       <<"}">> >>

\* C4: the pretty entry points, given {"a": 1.5, "b": [2, 3.0]} and a sink
\* that takes every byte, succeed and produce exactly the seven lines
\* {, "a": 1.5, "b": [, 2, 3, ], } indented by two spaces a level: 1.5 is a
\* float literal, 2 an integer, 3.0 the integer token 3.
C4_PrettyExample ==
    ( /\ HasReturned
      /\ ret.entry \in {"to_writer_pretty", "to_vec_pretty", "to_string_pretty"}
      /\ ret.value = Example
      /\ ret.sink = NewVec ) =>
        /\ ret.res = "Ok"
        /\ Output = JoinLines(ExampleLines)

\* to_writer_pretty has written the example to a Vec.
C4_Witness ==
    /\ HasReturned
    /\ ret.entry = "to_writer_pretty"
    /\ ret.value = Example
    /\ ret.sink = NewVec
    /\ Len(wr.buf) > Len(ExampleLines)

JsonWhitespace == {" ", "\t", "\n", "\r"}

\* Position i of s is inside a string: an odd number of quotes before it.
InString(s, i) == Cardinality({j \in 1..(i - 1) : s[j] = "\""}) % 2 = 1

IsBetweenTokens(s, i) == s[i] \in JsonWhitespace /\ ~InString(s, i)

\* The text without the whitespace between its tokens.
Tokens(s) ==
    LET kept == SelectSeq([i \in 1..Len(s) |-> <<i, s[i]>>],
                          LAMBDA q : ~IsBetweenTokens(s, q[1]))
    IN  [k \in 1..Len(kept) |-> kept[k][2]]

\* No whitespace stands inside a number.
NoSplitNumber(s) ==
    \A i \in 2..(Len(s) - 1) :
        IsBetweenTokens(s, i) => ~(s[i - 1] \in NumberChars /\ s[i + 1] \in NumberChars)

SameTokens(a, b) ==
    /\ Tokens(a) = Tokens(b)
    /\ NoSplitNumber(a)
    /\ NoSplitNumber(b)

IsWithIndent == ret.entry = "with_indent"

\* C5, as stated: for every indent, at every point of a pass the output of
\* PrettyV8Formatter::with_indent(indent) and that of
\* PrettyV8Formatter::new() given the same callbacks hold the same tokens in
\* the same order and differ only in the whitespace between tokens.
C5_IndentChangesOnlyWhitespace ==
    IsWithIndent => SameTokens(wr.buf, ret.beside.w.buf)

\* C5, amended: the same for every indent made of JSON whitespace bytes
\* only (space, tab, line feed, carriage return).
C5_WhitespaceIndentChangesOnlyWhitespace ==
    (IsWithIndent /\ \A i \in 1..Len(ret.indent) : ret.indent[i] \in JsonWhitespace) =>
        SameTokens(wr.buf, ret.beside.w.buf)

\* The example written with a tab for indent: other bytes than with the
\* default indent.
C5_Witness ==
    /\ IsWithIndent
    /\ HasReturned
    /\ ret.indent = <<"\t">>
    /\ ret.value = Example
    /\ ret.res = "Ok"
    /\ wr.buf # ret.beside.w.buf

\* C6: the compact output of to_vec and to_string, read back as JSON and
\* serialized again by the same entry point, gives the same bytes.
C6_CompactOutputIsIdempotent ==
    (HasReturned /\ ret.pass = 2) =>
        /\ ret.res = "Ok"
        /\ ret.out = ret.first

\* The example read back, 3.0 now the integer 3, and serialized again.
C6_Witness ==
    /\ HasReturned
    /\ ret.pass = 2
    /\ ret.entry = "to_string"
    /\ ret.value # Example
    /\ ret.value.t = "map"
    /\ Len(ret.value.entries) = 2
    /\ ret.value.entries[2][2] = VSeq(<<VU64(I64Of(2)), VU64(I64Of(3))>>)
    /\ ret.out = ret.first

IsSinkCall == ret.entry = "callback"

\* C7: a number callback fails exactly when the base formatter's write of
\* the token to the sink fails, which is when the sink has no room for the
\* token, and with the sink's error; an entry point returns Err, with the
\* error of the step that failed and no value, exactly when a callback or
\* the encoder failed.
C7_ErrorsPropagateUnchanged ==
    /\ IsSinkCall =>
         /\ last.res = Formatter_default(ret.sink, CB(last.call, last.arg)).res
         /\ wr = Formatter_default(ret.sink, CB(last.call, last.arg)).w
         /\ last.res # "Ok" <=>
                Len(V8Formatter_callback(last.f0, NewVec, CB(last.op, last.value),
                                         sem).w.buf) > ret.sink.room
         /\ last.res # "Ok" => last.res = ret.sink.err
    /\ (HasReturned /\ ret.entry \in SixEntryPoints) =>
         /\ (ret.ser # "Ok" \/ last.res # "Ok") =>
                (ret.res = "Err" /\ ret.err = ret.ser /\ ret.out = <<>>)
         /\ last.res # "Ok" => ret.ser = last.res /\ last.res = ret.sink.err
         /\ ret.res = "Err" <=> ret.ser # "Ok"

\* write_f64 of 3.0 on a sink with no room: the write_i64 it delegates to
\* fails.
C7_Witness ==
    /\ IsSinkCall
    /\ last.op = "write_f64"
    /\ last.call = "write_i64"
    /\ last.res = "WriteZero"

====
